---- MODULE Spec2Model ----
(***************************************************************************)
(* Model of the IP-Country build scripts: build.py (IP blocks) and         *)
(* build-asn.py (AS numbers).                                              *)
(*                                                                         *)
(* Python strings are sequences of one-character strings, so that split,   *)
(* strip, `in`, startswith, isdigit, int and str are computed as the       *)
(* interpreter computes them.  Python integers are unbounded: an int is a  *)
(* record [neg, mag] whose magnitude is a sequence of decimal digits, most *)
(* significant first, without leading zeros (zero is <<0>>).               *)
(***************************************************************************)
EXTENDS Integers, Sequences, FiniteSets, TLC

VARIABLES
    program,        \* which script runs: "parse", "build.py" or "build-asn.py"
    pc,             \* position of the script's main()
    text,           \* SpecParse: the source text handed to the parsers
    ip_out,         \* SpecParse: outcome of process_region_data(text)
    asn_out,        \* SpecParse: outcome of process_asn_data(text)
    pending,        \* download futures not yet completed
    failed,         \* sources whose download raised in this run
    sources,        \* build.py: IANASources/<region>.txt on disk
    entries,        \* build.py: len(region_data) per region, once processed
    all_ip_data,    \* build.py: main's all_ip_data
    sorted_data,    \* build.py: main's sorted_data
    all_asn_data,   \* build-asn.py: main's all_asn_data
    fetched,        \* build-asn.py: response.text of each completed download
    files           \* output artifacts on disk: path -> exported view

vars == <<program, pc, text, ip_out, asn_out, pending, failed, sources, entries,
          all_ip_data, sorted_data, all_asn_data, fetched, files>>

(***************************************************************************)
(* Characters and strings                                                  *)
(***************************************************************************)

DigitChars == <<"0", "1", "2", "3", "4", "5", "6", "7", "8", "9">>

HexChars == <<"0", "1", "2", "3", "4", "5", "6", "7", "8", "9",
              "a", "b", "c", "d", "e", "f">>

Whitespace == {" ", "\n", "\t", "\r"}

IsDigitChar(c) == \E i \in 1..10 : DigitChars[i] = c

DigitVal(c) == (CHOOSE i \in 1..10 : DigitChars[i] = c) - 1

IsHexChar(c) == \E i \in 1..16 : HexChars[i] = c

HexVal(c) == (CHOOSE i \in 1..16 : HexChars[i] = c) - 1

\* Unicode code points of the characters the inputs are written in.
Ord(c) ==
    CASE c = "\t" -> 9 [] c = "\n" -> 10 [] c = "\r" -> 13 [] c = " " -> 32
      [] c = "#" -> 35 [] c = "*" -> 42 [] c = "+" -> 43 [] c = "-" -> 45
      [] c = "." -> 46 [] c = "/" -> 47 [] c = ":" -> 58 [] c = "|" -> 124
      [] IsDigitChar(c) -> 48 + DigitVal(c)
      [] c = "A" -> 65 [] c = "C" -> 67 [] c = "D" -> 68 [] c = "E" -> 69
      [] c = "J" -> 74 [] c = "N" -> 78 [] c = "P" -> 80 [] c = "S" -> 83
      [] c = "U" -> 85
      [] c = "a" -> 97 [] c = "b" -> 98 [] c = "c" -> 99 [] c = "d" -> 100
      [] c = "e" -> 101 [] c = "f" -> 102 [] c = "g" -> 103 [] c = "i" -> 105
      [] c = "l" -> 108 [] c = "n" -> 110 [] c = "o" -> 111 [] c = "p" -> 112
      [] c = "r" -> 114 [] c = "s" -> 115 [] c = "t" -> 116 [] c = "v" -> 118
      [] c = "x" -> 120

\* str < str: lexicographic by code point, a proper prefix first.
RECURSIVE StrLess(_, _)
StrLess(a, b) ==
    IF b = <<>> THEN FALSE
    ELSE IF a = <<>> THEN TRUE
    ELSE IF Head(a) # Head(b) THEN Ord(Head(a)) < Ord(Head(b))
    ELSE StrLess(Tail(a), Tail(b))

\* sub in s
contains(s, sub) ==
    \E i \in 0..(Len(s) - Len(sub)) : SubSeq(s, i + 1, i + Len(sub)) = sub

\* s.startswith(p)
startswith(s, p) == Len(s) >= Len(p) /\ SubSeq(s, 1, Len(p)) = p

\* s.strip()
strip(s) ==
    IF \A i \in 1..Len(s) : s[i] \in Whitespace THEN <<>>
    ELSE LET lo == CHOOSE i \in 1..Len(s) :
                       s[i] \notin Whitespace /\ \A j \in 1..(i - 1) : s[j] \in Whitespace
             hi == CHOOSE i \in 1..Len(s) :
                       s[i] \notin Whitespace /\ \A j \in (i + 1)..Len(s) : s[j] \in Whitespace
         IN  SubSeq(s, lo, hi)

\* s.split(sep) for a one-character separator
RECURSIVE split(_, _)
split(s, sep) ==
    IF \A i \in 1..Len(s) : s[i] # sep THEN <<s>>
    ELSE LET i == CHOOSE k \in 1..Len(s) : s[k] = sep /\ \A j \in 1..(k - 1) : s[j] # sep
         IN  <<SubSeq(s, 1, i - 1)>> \o split(SubSeq(s, i + 1, Len(s)), sep)

\* sep.join(parts)
RECURSIVE join(_, _)
join(parts, sep) ==
    IF parts = <<>> THEN <<>>
    ELSE IF Len(parts) = 1 THEN parts[1]
    ELSE parts[1] \o <<sep>> \o join(Tail(parts), sep)

\* s.isdigit()
isdigit(s) == s # <<>> /\ \A i \in 1..Len(s) : IsDigitChar(s[i])

(***************************************************************************)
(* Unbounded integers                                                      *)
(***************************************************************************)

\* Drop leading zeros of a digit sequence; the empty sequence is zero.
RECURSIVE Norm(_)
Norm(ds) ==
    IF ds = <<>> THEN <<0>>
    ELSE IF Len(ds) > 1 /\ Head(ds) = 0 THEN Norm(Tail(ds))
    ELSE ds

MkInt(neg, ds) ==
    LET m == Norm(ds) IN [neg |-> neg /\ m # <<0>>, mag |-> m]

MagLess(a, b) ==
    \/ Len(a) < Len(b)
    \/ /\ Len(a) = Len(b)
       /\ \E i \in 1..Len(a) : a[i] < b[i] /\ \A j \in 1..(i - 1) : a[j] = b[j]

\* x < y on unbounded integers
IntLess(x, y) ==
    IF x.neg # y.neg THEN x.neg
    ELSE IF x.neg THEN MagLess(y.mag, x.mag)
    ELSE MagLess(x.mag, y.mag)

\* The literal the interpreter accepts in int(s): surrounding whitespace, one
\* optional sign, decimal digits.
IntBody(s) ==
    LET t == strip(s)
    IN  IF t # <<>> /\ Head(t) \in {"+", "-"} THEN Tail(t) ELSE t

\* int(s) raises ValueError
IntRaises(s) == ~isdigit(IntBody(s))

\* int(s), for a string it accepts
int(s) ==
    LET t == strip(s)
        b == IntBody(s)
    IN  MkInt(t # <<>> /\ Head(t) = "-", [i \in 1..Len(b) |-> DigitVal(b[i])])

\* Small machine-sized value of a digit sequence.
RECURSIVE SmallVal(_)
SmallVal(ds) ==
    IF ds = <<>> THEN 0 ELSE 10 * SmallVal(SubSeq(ds, 1, Len(ds) - 1)) + ds[Len(ds)]

\* str(n) for a machine-sized integer n
RECURSIVE StrNat(_)
StrNat(n) ==
    IF n < 10 THEN <<DigitChars[n + 1]>>
    ELSE StrNat(n \div 10) \o <<DigitChars[(n % 10) + 1]>>

str(n) == IF n < 0 THEN <<"-">> \o StrNat(0 - n) ELSE StrNat(n)

\* Long division of a digit sequence by two, carry r in.
RECURSIVE HalfDigits(_, _)
HalfDigits(ds, r) ==
    IF ds = <<>> THEN <<>>
    ELSE LET cur == 10 * r + Head(ds)
         IN  <<cur \div 2>> \o HalfDigits(Tail(ds), cur % 2)

Half(m) == Norm(HalfDigits(m, 0))

IsOdd(m) == m[Len(m)] % 2 = 1

\* floor(log2(m)) for a magnitude m >= 1
RECURSIVE FloorLog2(_)
FloorLog2(m) == IF m = <<1>> THEN 0 ELSE 1 + FloorLog2(Half(m))

RECURSIVE IsPow2(_)
IsPow2(m) ==
    IF m = <<1>> THEN TRUE
    ELSE IF IsOdd(m) THEN FALSE
    ELSE IsPow2(Half(m))

(***************************************************************************)
(* Floats.  A float is kept as [ip, frac]: its floor and whether it has a  *)
(* fractional part.  math.log2 is exact on powers of two, and for the      *)
(* other values of the inputs (at most eleven digits) its distance to the  *)
(* next integer is far above the double's precision, so the floor and the  *)
(* fractional flag are those of the real logarithm.                        *)
(***************************************************************************)

\* math.log2(n) raises ValueError (math domain error)
Log2Raises(n) == n.neg \/ n.mag = <<0>>

\* int(math.log2(n)) as a float: the logarithm cut to an integer before it
\* is subtracted from 32
math_log2_floor(n) == [ip |-> FloorLog2(n.mag), frac |-> FALSE]

\* math.log2(n)
math_log2(n) == [ip |-> FloorLog2(n.mag), frac |-> ~IsPow2(n.mag)]

\* k - x for an int k and a float x
FloatRSub(k, x) ==
    IF x.frac THEN [ip |-> k - x.ip - 1, frac |-> TRUE]
    ELSE [ip |-> k - x.ip, frac |-> FALSE]

\* int(x) for a float x: truncation toward zero
FloatToInt(x) == IF x.frac /\ x.ip < 0 THEN x.ip + 1 ELSE x.ip

(***************************************************************************)
(* String literals of the scripts and of the delegated-stats format        *)
(***************************************************************************)

S_allocated == <<"a", "l", "l", "o", "c", "a", "t", "e", "d">>

S_assigned == <<"a", "s", "s", "i", "g", "n", "e", "d">>

S_reserved == <<"r", "e", "s", "e", "r", "v", "e", "d">>

S_available == <<"a", "v", "a", "i", "l", "a", "b", "l", "e">>

S_ipv4 == <<"i", "p", "v", "4">>

S_ipv6 == <<"i", "p", "v", "6">>

S_asn == <<"a", "s", "n">>

(***************************************************************************)
(* build.py: IPPackage and process_region_data                             *)
(***************************************************************************)

IPPackage(country, ip, prefix_length, version) ==
    [country |-> country, ip |-> ip, prefix_length |-> prefix_length, version |-> version]

\* str(int(32 - math.log2(int(value)))) without the subtraction from 32
ipv4_prefix_length_nosub(value) == str(FloatToInt(math_log2(int(value))))

\* str(int(32 - math.log2(int(value)))), for a value math.log2 accepts
ipv4_prefix_length(value) == str(FloatToInt(FloatRSub(32, math_log2(int(value)))))

\* The body of the `for line in f` loop: [raised, recs], the exception that
\* leaves the loop or the records the line appends.
process_region_line(line) ==
    LET parts == split(strip(line), "|")
        none  == [raised |-> FALSE, recs |-> <<>>]
    IN  IF ~(contains(line, S_allocated) \/ contains(line, S_assigned)) THEN none
        ELSE IF Len(parts) < 5 THEN none
        ELSE LET country    == parts[2]
                 ip_type    == parts[3]
                 ip_address == parts[4]
                 value      == parts[5]
             IN  IF ip_type = S_ipv4 /\ isdigit(value)
                 THEN IF Log2Raises(int(value))
                      THEN [raised |-> TRUE, recs |-> <<>>]
                      ELSE [raised |-> FALSE,
                            recs |-> <<IPPackage(country, ip_address,
                                                 ipv4_prefix_length(value), ip_type)>>]
                 ELSE IF ip_type = S_ipv6 /\ isdigit(value)
                 THEN [raised |-> FALSE,
                       recs |-> <<IPPackage(country, ip_address, value, ip_type)>>]
                 ELSE none

\* The lines a text file yields when iterated: each keeps its line break.
FileLines(t) == [i \in 1..Len(t) |-> t[i] \o <<"\n">>]

RECURSIVE process_region_lines(_, _)
process_region_lines(lines, ip_data) ==
    IF lines = <<>> THEN [raised |-> FALSE, ip_data |-> ip_data]
    ELSE LET r == process_region_line(Head(lines))
         IN  IF r.raised THEN [raised |-> TRUE, ip_data |-> <<>>]
             ELSE process_region_lines(Tail(lines), ip_data \o r.recs)

\* process_region_data on a file holding the lines t: the list it returns,
\* or raised when an exception leaves it.
process_region_data(t) == process_region_lines(FileLines(t), <<>>)

(***************************************************************************)
(* build-asn.py: ASNEntry and process_asn_data                             *)
(***************************************************************************)

ASNEntry(registry, country, asn_number, value, date, status) ==
    [registry |-> registry, country |-> country, asn |-> asn_number,
     value |-> value, date |-> date, status |-> status]

process_asn_line(line) ==
    LET parts == split(strip(line), "|")
    IN  IF line = <<>> \/ startswith(line, <<"#">>) THEN <<>>
        ELSE IF ~(Len(parts) >= 7 /\ parts[3] = S_asn) THEN <<>>
        ELSE LET status == parts[7]
             IN  IF parts[3] = S_asn /\ (status = S_allocated \/ status = S_assigned)
                 THEN <<ASNEntry(parts[1], parts[2], parts[4], parts[5], parts[6], status)>>
                 ELSE <<>>

RECURSIVE process_asn_lines(_)
process_asn_lines(lines) ==
    IF lines = <<>> THEN <<>>
    ELSE process_asn_line(Head(lines)) \o process_asn_lines(Tail(lines))

\* process_asn_data(registry_name, data) on a response whose lines are t
process_asn_data(t) == process_asn_lines(t)

(***************************************************************************)
(* sorted(), and the ipaddress module                                      *)
(***************************************************************************)

\* An address as an integer: its big-endian groups (4 octets, 8 hextets).
\* Two addresses of one family compare as their group sequences do.
RECURSIVE LimbLess(_, _)
LimbLess(a, b) ==
    IF a = <<>> \/ b = <<>> THEN a = <<>> /\ b # <<>>
    ELSE IF Head(a) # Head(b) THEN Head(a) < Head(b)
    ELSE LimbLess(Tail(a), Tail(b))

DecVal(s) == SmallVal([i \in 1..Len(s) |-> DigitVal(s[i])])

RECURSIVE HexValOf(_)
HexValOf(s) ==
    IF s = <<>> THEN 0 ELSE 16 * HexValOf(SubSeq(s, 1, Len(s) - 1)) + HexVal(s[Len(s)])

\* ipaddress.IPv4Address: four octets of one to three digits, no leading
\* zero, at most 255.
OctetOK(o) ==
    /\ isdigit(o)
    /\ Len(o) <= 3
    /\ ~(Len(o) > 1 /\ o[1] = "0")
    /\ DecVal(o) <= 255

IPv4Raises(ip) ==
    LET octets == split(ip, ".")
    IN  Len(octets) # 4 \/ \E i \in 1..Len(octets) : ~OctetOK(octets[i])

\* int(ipaddress.IPv4Address(ip))
IPv4Int(ip) == LET octets == split(ip, ".") IN [i \in 1..4 |-> DecVal(octets[i])]

\* ipaddress.IPv6Address on the colon-separated forms (no embedded IPv4
\* address, no scope id): up to eight hextets, one `::` standing for the
\* missing ones.
HextetOK(h) == h # <<>> /\ Len(h) <= 4 /\ \A i \in 1..Len(h) : IsHexChar(h[i])

IPv6Layout(ip) ==
    LET parts == split(ip, ":")
        n     == Len(parts)
        skips == {i \in 2..(n - 1) : parts[i] = <<>>}
    IN  IF n < 3 \/ n > 9 \/ Cardinality(skips) > 1 THEN [ok |-> FALSE]
        ELSE IF skips # {}
        THEN LET s  == CHOOSE i \in skips : TRUE
                 hi == IF parts[1] = <<>> THEN s - 2 ELSE s - 1
                 lo == IF parts[n] = <<>> THEN n - s - 1 ELSE n - s
             IN  IF (parts[1] = <<>> /\ hi # 0) \/ (parts[n] = <<>> /\ lo # 0)
                        \/ 8 - (hi + lo) < 1
                 THEN [ok |-> FALSE]
                 ELSE [ok |-> TRUE, hi |-> SubSeq(parts, 1, hi),
                       lo |-> SubSeq(parts, n - lo + 1, n), skipped |-> 8 - (hi + lo)]
        ELSE IF n # 8 \/ parts[1] = <<>> \/ parts[n] = <<>> THEN [ok |-> FALSE]
        ELSE [ok |-> TRUE, hi |-> parts, lo |-> <<>>, skipped |-> 0]

IPv6Raises(ip) ==
    LET l == IPv6Layout(ip)
    IN  \/ ~l.ok
        \/ \E i \in 1..Len(l.hi) : ~HextetOK(l.hi[i])
        \/ \E i \in 1..Len(l.lo) : ~HextetOK(l.lo[i])

\* int(ipaddress.IPv6Address(ip))
IPv6Int(ip) ==
    LET l == IPv6Layout(ip)
    IN  [i \in 1..Len(l.hi) |-> HexValOf(l.hi[i])]
            \o [i \in 1..l.skipped |-> 0]
            \o [i \in 1..Len(l.lo) |-> HexValOf(l.lo[i])]

(***************************************************************************)
(* build.py: sort_ip_data and the exports                                  *)
(***************************************************************************)

\* ip_sort_key comparing the address as text
ip_sort_key_text(package) ==
    <<package.country, package.version, [i \in 1..Len(package.ip) |-> Ord(package.ip[i])]>>

\* ip_sort_key(package) = (country, version, ip_int), 0 for an address the
\* ipaddress module rejects
ip_sort_key(package) ==
    LET ip_int == IF package.version = S_ipv4
                  THEN IF IPv4Raises(package.ip) THEN <<0, 0, 0, 0>>
                       ELSE IPv4Int(package.ip)
                  ELSE IF IPv6Raises(package.ip) THEN <<0, 0, 0, 0, 0, 0, 0, 0>>
                       ELSE IPv6Int(package.ip)
    IN  <<package.country, package.version, ip_int>>

\* (country, version, ip_int) < (country, version, ip_int)
KeyLess(a, b) ==
    IF a[1] # b[1] THEN StrLess(a[1], b[1])
    ELSE IF a[2] # b[2] THEN StrLess(a[2], b[2])
    ELSE LimbLess(a[3], b[3])

PackageLess(p, q) == KeyLess(ip_sort_key(p), ip_sort_key(q))

\* key=lambda x: int(x.asn)
AsnLess(a, b) == IntLess(int(a.asn), int(b.asn))

\* key=lambda x: x[1], reverse=True, on (key, count) items
CountGreater(a, b) == a[2] > b[2]

\* (key, count) items with distinct keys, as sorted() orders the tuples
ItemLess(a, b) == StrLess(a[1], b[1])

\* sorted(seq, key=...): a stable sort; less[i][j] tells whether the key
\* of seq[i] is smaller than the key of seq[j].  An element stands behind
\* the smaller ones and behind the equal ones that precede it in seq.
sorted(seq, less) ==
    LET n       == Len(seq)
        rank(i) == 1 + Cardinality({j \in 1..n : less[j][i] \/ (~less[i][j] /\ j < i)})
    IN  [p \in 1..n |-> seq[CHOOSE i \in 1..n : rank(i) = p]]

sort_ip_data(ip_data) ==
    sorted(ip_data, [i \in 1..Len(ip_data) |-> [j \in 1..Len(ip_data) |->
                        PackageLess(ip_data[i], ip_data[j])]])

\* sorted(entries, key=lambda x: int(x.asn))
sorted_by_asn(data) ==
    sorted(data, [i \in 1..Len(data) |-> [j \in 1..Len(data) |-> AsnLess(data[i], data[j])]])

\* sorted(items, key=lambda x: x[1], reverse=True)
sorted_by_count(items) ==
    sorted(items, [i \in 1..Len(items) |-> [j \in 1..Len(items) |->
                      CountGreater(items[i], items[j])]])

\* sorted(items)
sorted_items(items) ==
    sorted(items, [i \in 1..Len(items) |-> [j \in 1..Len(items) |->
                      ItemLess(items[i], items[j])]])

\* set(...) of a field of the records of a list
CountriesOf(data) == {data[i].country : i \in 1..Len(data)}

\* sorted(list(set(...))) of strings
RECURSIVE sorted_strings(_)
sorted_strings(S) ==
    IF S = {} THEN <<>>
    ELSE LET m == CHOOSE x \in S : \A y \in S \ {x} : StrLess(x, y)
         IN  <<m>> \o sorted_strings(S \ {m})

\* Writing a file: the path then holds the content, the other files stay.
Write(fs, path, content) ==
    [p \in DOMAIN fs \cup {path} |-> IF p = path THEN content ELSE fs[p]]

Path(dir, name) == [dir |-> dir, name |-> name]

VersionDir(version) == IF version = S_ipv4 THEN "JSON/IPV4" ELSE "JSON/IPV6"

\* The packages export_country_data groups under country and version.
CountryGroup(data, country, version) ==
    LET Match(pkg) == pkg.country = country /\ pkg.version = version
    IN  SelectSeq(data, Match)

\* export_country_data: one file per country and version that has packages.
export_country_data(fs, data) ==
    LET groups == {g \in CountriesOf(data) \X {S_ipv4, S_ipv6} :
                       CountryGroup(data, g[1], g[2]) # <<>>}
        new    == [g \in groups |-> Path(VersionDir(g[2]), g[1])]
    IN  [p \in DOMAIN fs \cup {new[g] : g \in groups} |->
            IF \E g \in groups : new[g] = p
            THEN LET g == CHOOSE h \in groups : new[h] = p
                 IN  CountryGroup(data, g[1], g[2])
            ELSE fs[p]]

\* export_version_specific_data's version_data
version_data(data, version) ==
    LET Match(pkg) == pkg.version = version IN SelectSeq(data, Match)

(***************************************************************************)
(* Inputs: delegated-stats lines, written field by field                   *)
(***************************************************************************)

R_apnic == <<"a", "p", "n", "i", "c">>

R_ripencc == <<"r", "i", "p", "e", "n", "c", "c">>

R_arin == <<"a", "r", "i", "n">>

C_JP == <<"J", "P">>

C_CN == <<"C", "N">>

C_US == <<"U", "S">>

C_DE == <<"D", "E">>

C_star == <<"*">>

A_103 == <<"1", "0", "3", ".", "0", ".", "0", ".", "0">>

A_80 == <<"8", "0", ".", "0", ".", "0", ".", "0">>

A_9 == <<"9", ".", "0", ".", "0", ".", "0">>

A_10 == <<"1", "0", ".", "0", ".", "0", ".", "0">>

A6_2001 == <<"2", "0", "0", "1", ":", "2", "0", "0", ":", ":">>

A6_2a00 == <<"2", "a", "0", "0", ":", ":">>

D_date == <<"2", "0", "1", "2", "0", "1", "0", "1">>

V_0 == <<"0">>

V_1 == <<"1">>

V_3 == <<"3">>

V_35 == <<"3", "5">>

V_129 == <<"1", "2", "9">>

V_256 == <<"2", "5", "6">>

V_768 == <<"7", "6", "8">>

V_65536 == <<"6", "5", "5", "3", "6">>

V_over == <<"4", "2", "9", "4", "9", "6", "7", "2", "9", "7">>

V_x == <<"x">>

N_173 == <<"1", "7", "3">>

N_174 == <<"1", "7", "4">>

N_9 == <<"9">>

\* Largest exponent k of the lines whose value is 2^k.
MaxPow == 33

\* Most lines of a source text.
MaxLines == 2

\* 2 * m on digit sequences, carry c in.
RECURSIVE DoubleDigits(_, _)
DoubleDigits(ds, c) ==
    IF ds = <<>> THEN (IF c = 0 THEN <<>> ELSE <<c>>)
    ELSE LET d == 2 * ds[Len(ds)] + c
         IN  DoubleDigits(SubSeq(ds, 1, Len(ds) - 1), d \div 10) \o <<d % 10>>

\* The digits of 2^k, by repeated doubling.
RECURSIVE PowMag(_)
PowMag(k) == IF k = 0 THEN <<1>> ELSE DoubleDigits(PowMag(k - 1), 0)

\* The decimal string of 2^k.
PowStr(k) == LET m == PowMag(k) IN [i \in 1..Len(m) |-> DigitChars[m[i] + 1]]

PowTable == [k \in 0..MaxPow |-> PowStr(k)]

Line(fields) == join(fields, "|")

IPLine(reg, cc, type, addr, value, status) == Line(<<reg, cc, type, addr, value, D_date, status>>)

PowLines == {IPLine(R_apnic, C_JP, S_ipv4, A_103, PowTable[k], S_allocated) : k \in 0..MaxPow}

IPLines ==
    { IPLine(R_apnic, C_JP, S_ipv4, A_103, V_256, S_allocated),
      IPLine(R_ripencc, C_star, S_ipv4, A_80, V_65536, S_allocated),
      IPLine(R_apnic, C_CN, S_ipv6, A6_2001, V_35, S_allocated),
      IPLine(R_apnic, C_CN, S_ipv6, A6_2a00, V_129, S_assigned),
      IPLine(R_apnic, C_JP, S_ipv4, A_10, V_0, S_assigned),
      IPLine(R_apnic, C_JP, S_ipv4, A_10, V_3, S_assigned),
      IPLine(R_arin, C_US, S_ipv4, A_9, V_768, S_assigned),
      IPLine(R_arin, C_US, S_ipv4, A_9, V_over, S_allocated),
      IPLine(R_apnic, C_JP, S_ipv4, A_103, V_x, S_allocated),
      IPLine(R_apnic, <<>>, S_ipv4, A_10, V_256, S_available),
      \* fewer than five fields
      Line(<<R_apnic, C_JP, S_ipv4>>),
      \* no status field, `allocated` in the date field
      Line(<<R_apnic, C_JP, S_ipv4, A_10, V_256, S_allocated>>),
      \* status reserved, `assigned` in a later field
      Line(<<R_arin, C_US, S_ipv4, A_9, V_256, D_date, S_reserved, S_assigned>>),
      \* a comment
      <<"#">> \o IPLine(R_apnic, C_JP, S_ipv4, A_103, V_256, S_allocated) }

AsnLines ==
    { IPLine(R_apnic, C_JP, S_asn, N_173, V_1, S_allocated),
      IPLine(R_ripencc, C_DE, S_asn, N_173, V_1, S_assigned),
      IPLine(R_ripencc, C_star, S_asn, N_9, V_1, S_allocated),
      IPLine(R_arin, C_US, S_asn, V_x, V_1, S_allocated),
      IPLine(R_arin, C_US, S_asn, N_174, V_1, S_reserved),
      Line(<<R_arin, C_US, S_asn, N_174, V_1, D_date, S_reserved, S_assigned>>),
      <<"#">> \o IPLine(R_apnic, C_JP, S_asn, N_173, V_1, S_allocated) }

Lines == IPLines \cup AsnLines

\* A line whose value is a power of two, alone or beside one other line.
PowTexts ==
    {<<p>> : p \in PowLines}
        \cup {<<p, l>> : p \in PowLines, l \in Lines}
        \cup {<<l, p>> : p \in PowLines, l \in Lines}

\* The decimal string of 2^k + d for d in {-1, 1} and k >= 1, where the last
\* digit of 2^k is one of 2, 4, 6, 8.
NearPowStr(k, d) ==
    LET m == PowMag(k)
        n == [m EXCEPT ![Len(m)] = @ + d]
    IN  [i \in 1..Len(n) |-> DigitChars[n[i] + 1]]

\* Lines whose value is next to a power of two: 3, 5, 7, 9, ...
NearPowLines ==
    {IPLine(R_arin, C_US, S_ipv4, A_9, NearPowStr(k, d), S_assigned) :
         k \in 2..MaxPow, d \in {-1, 1}}

\* A line whose value is next to a power of two, alone or beside one other
\* line.
NearPowTexts ==
    {<<p>> : p \in NearPowLines}
        \cup {<<p, l>> : p \in NearPowLines, l \in Lines}
        \cup {<<l, p>> : p \in NearPowLines, l \in Lines}

Texts == PowTexts \cup NearPowTexts \cup UNION {[1..n -> Lines] : n \in 1..MaxLines}

(***************************************************************************)
(* SpecParse: the two parsers applied to a source text                     *)
(***************************************************************************)

NoOutcome == [raised |-> FALSE, ip_data |-> <<>>]

IdleMain ==
    /\ pending = {}
    /\ failed = {}
    /\ sources = <<>>
    /\ entries = <<>>
    /\ all_ip_data = <<>>
    /\ sorted_data = <<>>
    /\ all_asn_data = <<>>
    /\ fetched = <<>>
    /\ files = <<>>

InitParse ==
    /\ program = "parse"
    /\ pc = "start"
    /\ text \in Texts
    /\ ip_out = NoOutcome
    /\ asn_out = <<>>
    /\ IdleMain

mainVars == <<pending, failed, sources, entries, all_ip_data, sorted_data,
              all_asn_data, fetched, files>>

\* process_region_data on a file holding text
ParseRegion ==
    /\ program = "parse"
    /\ pc = "start"
    /\ ip_out' = process_region_data(text)
    /\ pc' = "region_done"
    /\ UNCHANGED <<program, text, asn_out, mainVars>>

\* process_asn_data on a response holding text
ParseAsn ==
    /\ program = "parse"
    /\ pc = "start"
    /\ asn_out' = process_asn_data(text)
    /\ pc' = "asn_done"
    /\ UNCHANGED <<program, text, ip_out, mainVars>>

NextParse == ParseRegion \/ ParseAsn

SpecParse == InitParse /\ [][NextParse]_vars

(***************************************************************************)
(* build.py: main                                                          *)
(***************************************************************************)

F_global == <<"g", "l", "o", "b", "a", "l">>

F_countries == <<"c", "o", "u", "n", "t", "r", "i", "e", "s">>

F_global_ipv4 == F_global \o <<"_">> \o S_ipv4

F_global_ipv6 == F_global \o <<"_">> \o S_ipv6

F_global_asn == F_global \o <<"_">> \o S_asn

F_summary == <<"s", "u", "m", "m", "a", "r", "y">>

\* REGIONS_DELEGATED, two of its five entries, in the dictionary's order.
RegionOrder == <<"delegated-apnic-latest", "delegated-ripencc-latest">>

Regions == {RegionOrder[i] : i \in 1..Len(RegionOrder)}

NoFile == [exists |-> FALSE, text |-> <<>>]

L_jp10 == IPLine(R_apnic, C_JP, S_ipv4, A_10, V_256, S_allocated)

L_jp9 == IPLine(R_apnic, C_JP, S_ipv4, A_9, V_768, S_assigned)

L_wild == IPLine(R_ripencc, C_star, S_ipv4, A_80, V_65536, S_allocated)

L_cn6 == IPLine(R_apnic, C_CN, S_ipv6, A6_2001, V_35, S_allocated)

L_cn6b == IPLine(R_apnic, C_CN, S_ipv6, A6_2a00, V_35, S_assigned)

L_zero == IPLine(R_apnic, C_JP, S_ipv4, A_10, V_0, S_assigned)

L_short == Line(<<R_apnic, C_JP, S_ipv4>>)

\* an address the ipaddress module rejects
L_badaddr == IPLine(R_apnic, C_JP, S_ipv4, V_x, V_256, S_allocated)

\* The texts a registry may serve to build.py.
BuildTexts ==
    { <<L_jp10, L_jp9>>, <<L_wild, L_cn6b, L_cn6>>, <<L_jp9, L_zero>>, <<L_short, L_badaddr>> }

InitBuild ==
    /\ program = "build.py"
    /\ pc = "download"
    /\ pending = Regions
    /\ failed = {}
    /\ sources = [r \in Regions |-> NoFile]
    /\ entries = <<>>
    /\ all_ip_data = <<>>
    /\ sorted_data = <<>>
    /\ all_asn_data = <<>>
    /\ fetched = <<>>
    /\ files = <<>>
    /\ text = <<>>
    /\ ip_out = NoOutcome
    /\ asn_out = <<>>

parseVars == <<text, ip_out, asn_out>>

asnVars == <<all_asn_data, fetched>>

\* download_region_data returns: the response is written to IANASources.
DownloadOK(r, t) ==
    /\ program = "build.py"
    /\ pc = "download"
    /\ r \in pending
    /\ sources' = [sources EXCEPT ![r] = [exists |-> TRUE, text |-> t]]
    /\ pending' = pending \ {r}
    /\ pc' = IF pending' = {} THEN "process" ELSE "download"
    /\ UNCHANGED <<program, failed, entries, all_ip_data, sorted_data, files,
                   asnVars, parseVars>>

\* download_region_data raises (requests.get or raise_for_status): nothing
\* is written, main prints the error.
DownloadFail(r) ==
    /\ program = "build.py"
    /\ pc = "download"
    /\ r \in pending
    /\ failed' = failed \cup {r}
    /\ pending' = pending \ {r}
    /\ pc' = IF pending' = {} THEN "process" ELSE "download"
    /\ UNCHANGED <<program, sources, entries, all_ip_data, sorted_data, files,
                   asnVars, parseVars>>

\* process_region_data(region) as main calls it: open() raises when the
\* file is missing.
process_region(src) ==
    IF ~src.exists THEN [raised |-> TRUE, ip_data |-> <<>>]
    ELSE process_region_data(src.text)

\* One turn of main's processing loop, its try/except included.
ProcessRegion ==
    /\ program = "build.py"
    /\ pc = "process"
    /\ LET region == RegionOrder[Len(entries) + 1]
           out    == process_region(sources[region])
       IN  /\ all_ip_data' = IF out.raised THEN all_ip_data
                             ELSE all_ip_data \o out.ip_data
           /\ entries' = Append(entries, [ok |-> ~out.raised, n |-> Len(out.ip_data)])
    /\ pc' = IF Len(entries') = Len(RegionOrder) THEN "sort" ELSE "process"
    /\ UNCHANGED <<program, pending, failed, sources, sorted_data, files,
                   asnVars, parseVars>>

SortData ==
    /\ program = "build.py"
    /\ pc = "sort"
    /\ sorted_data' = sort_ip_data(all_ip_data)
    /\ pc' = "export_countries"
    /\ UNCHANGED <<program, pending, failed, sources, entries, all_ip_data, files,
                   asnVars, parseVars>>

\* An export step of build.py.  Of the CSV, JSON and TXT files an export
\* writes, which hold the same sequence, the JSON file is kept.
BuildExport(at, fs, next) ==
    /\ program = "build.py"
    /\ pc = at
    /\ files' = fs
    /\ pc' = next
    /\ UNCHANGED <<program, pending, failed, sources, entries, all_ip_data,
                   sorted_data, asnVars, parseVars>>

ExportCountriesList ==
    BuildExport("export_countries",
                Write(files, Path("JSON", F_countries),
                      sorted_strings(CountriesOf(sorted_data))),
                "export_global")

ExportGlobalData ==
    BuildExport("export_global",
                Write(files, Path("JSON", F_global), sorted_data),
                "export_ipv4")

ExportIPv4Data ==
    BuildExport("export_ipv4",
                Write(files, Path("JSON", F_global_ipv4), version_data(sorted_data, S_ipv4)),
                "export_ipv6")

ExportIPv6Data ==
    BuildExport("export_ipv6",
                Write(files, Path("JSON", F_global_ipv6), version_data(sorted_data, S_ipv6)),
                "export_country")

ExportCountryData ==
    BuildExport("export_country", export_country_data(files, sorted_data), "done")

\* The script is run again; IANASources and the exported files stay on disk.
RerunBuild ==
    /\ program = "build.py"
    /\ pc = "done"
    /\ pc' = "download"
    /\ pending' = Regions
    /\ failed' = {}
    /\ entries' = <<>>
    /\ all_ip_data' = <<>>
    /\ sorted_data' = <<>>
    /\ UNCHANGED <<program, sources, files, asnVars, parseVars>>

NextBuild ==
    \/ \E r \in Regions, t \in BuildTexts : DownloadOK(r, t)
    \/ \E r \in Regions : DownloadFail(r)
    \/ ProcessRegion
    \/ SortData
    \/ ExportCountriesList
    \/ ExportGlobalData
    \/ ExportIPv4Data
    \/ ExportIPv6Data
    \/ ExportCountryData
    \/ RerunBuild

(***************************************************************************)
(* build-asn.py: the exports and main                                      *)
(***************************************************************************)

\* sorted(entries, key=lambda x: int(x.asn)) raises ValueError
AsnSortRaises(data) == \E i \in 1..Len(data) : IntRaises(data[i].asn)

\* The entries of data whose field has the value v, in data's order.
Matching(data, field, v) == LET Match(e) == e[field] = v IN SelectSeq(data, Match)

\* The grouping with `d[key] = [entry]` in place of `d[key].append(entry)`:
\* each key keeps only the last entry that has it.
GroupItems_overwrite(data, field) ==
    LET n      == Len(data)
        firsts == {i \in 1..n : \A j \in 1..(i - 1) : data[j][field] # data[i][field]}
        nth    == [k \in 1..Cardinality(firsts) |->
                      CHOOSE i \in firsts : Cardinality({j \in firsts : j < i}) = k - 1]
        last   == [k \in 1..Cardinality(firsts) |->
                      CHOOSE i \in 1..n :
                          /\ data[i][field] = data[nth[k]][field]
                          /\ \A j \in (i + 1)..n : data[j][field] # data[i][field]]
    IN  [k \in 1..Cardinality(firsts) |-> <<data[nth[k]][field], <<data[last[k]]>> >>]

\* A defaultdict filled in one pass over data: its keys, the values of
\* the entries' field, in the order of their first insertion, each with
\* the entries appended to it.
GroupItems(data, field) ==
    LET n      == Len(data)
        firsts == {i \in 1..n : \A j \in 1..(i - 1) : data[j][field] # data[i][field]}
        nth    == [k \in 1..Cardinality(firsts) |->
                      CHOOSE i \in firsts : Cardinality({j \in firsts : j < i}) = k - 1]
    IN  [k \in 1..Cardinality(firsts) |->
            <<data[nth[k]][field], Matching(data, field, data[nth[k]][field])>>]

\* sorted_entries of export_by_country and export_by_registry
group_view(group) == sorted_by_asn(group)

\* The files a grouped export writes under dir, one per key not skipped.
GroupExport(fs, dir, items, skip) ==
    LET kept == {k \in 1..Len(items) : items[k][1] \notin skip}
    IN  [p \in DOMAIN fs \cup {Path(dir, items[k][1]) : k \in kept} |->
            IF \E k \in kept : Path(dir, items[k][1]) = p
            THEN group_view(items[CHOOSE k \in kept : Path(dir, items[k][1]) = p][2])
            ELSE fs[p]]

\* export_by_country: `if country and country != '*'` skips two keys.
export_by_country(fs, data) ==
    GroupExport(fs, "ASN/JSON/BY_COUNTRY", GroupItems(data, "country"), {<<>>, <<"*">>})

export_by_registry(fs, data) ==
    GroupExport(fs, "ASN/JSON/BY_REGISTRY", GroupItems(data, "registry"), {})

\* The items of a counting defaultdict: (key, count) in insertion order.
CountItems(data, field) ==
    LET items == GroupItems(data, field)
    IN  [k \in 1..Len(items) |-> <<items[k][1], Len(items[k][2])>>]

\* The summary dictionary of export_summary; a dict keeps the order in
\* which its items were inserted.
summary(data) ==
    [total_asns       |-> Len(data),
     by_country       |-> sorted_by_count(CountItems(data, "country")),
     by_registry      |-> sorted_items(CountItems(data, "registry")),
     by_status        |-> sorted_items(CountItems(data, "status")),
     countries_count  |-> Len(CountItems(data, "country")),
     registries_count |-> Len(CountItems(data, "registry"))]

\* ASN_SOURCES, two of its five entries, in the dictionary's order.
AsnOrder == <<"apnic", "ripencc">>

Registries == {AsnOrder[i] : i \in 1..Len(AsnOrder)}

NotFetched == [ok |-> FALSE, text |-> <<>>]

L_asnJP == IPLine(R_apnic, C_JP, S_asn, N_173, V_1, S_allocated)

L_asnDE == IPLine(R_ripencc, C_DE, S_asn, N_173, V_1, S_assigned)

L_asnStar == IPLine(R_ripencc, C_star, S_asn, N_9, V_1, S_allocated)

L_asnUS == IPLine(R_arin, C_US, S_asn, N_174, V_1, S_allocated)

L_asnBad == IPLine(R_arin, C_US, S_asn, V_x, V_1, S_allocated)

L_asnReserved == IPLine(R_arin, C_US, S_asn, N_174, V_1, S_reserved)

\* The texts a registry may serve to build-asn.py.
AsnTexts ==
    { <<L_asnUS, L_asnJP>>, <<L_asnDE, L_asnStar>>, <<L_asnBad>>, <<L_asnReserved>> }

InitAsn ==
    /\ program = "build-asn.py"
    /\ pc = "download"
    /\ pending = Registries
    /\ failed = {}
    /\ sources = <<>>
    /\ entries = <<>>
    /\ all_ip_data = <<>>
    /\ sorted_data = <<>>
    /\ all_asn_data = <<>>
    /\ fetched = [r \in Registries |-> NotFetched]
    /\ files = <<>>
    /\ text = <<>>
    /\ ip_out = NoOutcome
    /\ asn_out = <<>>

buildVars == <<sources, entries, all_ip_data, sorted_data>>

\* A future completes: download_and_process_asn got the response t, and
\* main extends all_asn_data with the entries it returns.
FetchOK(r, t) ==
    /\ program = "build-asn.py"
    /\ pc = "download"
    /\ r \in pending
    /\ all_asn_data' = all_asn_data \o process_asn_data(t)
    /\ fetched' = [fetched EXCEPT ![r] = [ok |-> TRUE, text |-> t]]
    /\ pending' = pending \ {r}
    /\ pc' = IF pending' = {} THEN "check" ELSE "download"
    /\ UNCHANGED <<program, failed, files, buildVars, parseVars>>

\* A future completes: the download raised, download_and_process_asn
\* caught it and returned [].
FetchFail(r) ==
    /\ program = "build-asn.py"
    /\ pc = "download"
    /\ r \in pending
    /\ failed' = failed \cup {r}
    /\ pending' = pending \ {r}
    /\ pc' = IF pending' = {} THEN "check" ELSE "download"
    /\ UNCHANGED <<program, all_asn_data, fetched, files, buildVars, parseVars>>

\* `if not all_asn_data: return`
CheckData ==
    /\ program = "build-asn.py"
    /\ pc = "check"
    /\ pc' = IF all_asn_data = <<>> THEN "exit" ELSE "export_global"
    /\ UNCHANGED <<program, pending, failed, files, asnVars, buildVars, parseVars>>

AsnExport(at, fs, next) ==
    /\ program = "build-asn.py"
    /\ pc = at
    /\ files' = fs
    /\ pc' = next
    /\ UNCHANGED <<program, pending, failed, asnVars, buildVars, parseVars>>

\* export_global_asn_data: the sort comes before any file is opened, and a
\* ValueError of int(x.asn) ends the script with a traceback.
ExportGlobalAsn ==
    IF AsnSortRaises(all_asn_data)
    THEN AsnExport("export_global", files, "crashed")
    ELSE AsnExport("export_global",
                   Write(files, Path("ASN/JSON", F_global_asn), sorted_by_asn(all_asn_data)),
                   "export_by_country")

ExportByCountry ==
    AsnExport("export_by_country", export_by_country(files, all_asn_data),
              "export_by_registry")

ExportByRegistry ==
    AsnExport("export_by_registry", export_by_registry(files, all_asn_data),
              "export_summary")

ExportSummary ==
    AsnExport("export_summary",
              Write(files, Path("ASN/JSON", F_summary), summary(all_asn_data)),
              "done")

\* The script is run again; the exported files stay on disk.
RerunAsn ==
    /\ program = "build-asn.py"
    /\ pc \in {"done", "exit", "crashed"}
    /\ pc' = "download"
    /\ pending' = Registries
    /\ failed' = {}
    /\ all_asn_data' = <<>>
    /\ fetched' = [r \in Registries |-> NotFetched]
    /\ UNCHANGED <<program, files, buildVars, parseVars>>

NextAsn ==
    \/ \E r \in Registries, t \in AsnTexts : FetchOK(r, t)
    \/ \E r \in Registries : FetchFail(r)
    \/ CheckData
    \/ ExportGlobalAsn
    \/ ExportByCountry
    \/ ExportByRegistry
    \/ ExportSummary
    \/ RerunAsn

(***************************************************************************)
(* Spec: either script, run any number of times                            *)
(***************************************************************************)

Init == InitBuild \/ InitAsn

Next == NextBuild \/ NextAsn

Spec == Init /\ [][Next]_vars

\* ---- CLAIMS ----
(***************************************************************************)
(* Properties of the parsers (SpecParse)                                   *)
(***************************************************************************)

Fields(line) == split(strip(line), "|")

\* A line the IP-block parser is to accept: a status text, five fields, an
\* address-family type and a digit-string value.
Accepted(line) ==
    LET f == Fields(line)
    IN  /\ contains(line, S_allocated) \/ contains(line, S_assigned)
        /\ Len(f) >= 5
        /\ f[3] \in {S_ipv4, S_ipv6}
        /\ isdigit(f[5])

\* The line's status field is exactly `allocated` or `assigned`.
StatusOK(line) == Len(Fields(line)) >= 7 /\ Fields(line)[7] \in {S_allocated, S_assigned}

NotComment(line) == ~startswith(line, <<"#">>)

\* The record of the i-th line of text, when the call returned.
RecordOf(i) == ip_out.ip_data[Cardinality({j \in 1..i : Accepted(text[j])})]

\* An accepted IPv4 line whose value field is the decimal string of 2^k.
IsPowLine(line, k) ==
    LET f == Fields(line)
    IN  Accepted(line) /\ f[3] = S_ipv4 /\ f[5] = PowTable[k]

\* C1: an accepted IPv4 line whose value is 2^k, 0 <= k <= 32, yields the
\* record with prefix length 32 - k and the line's country and address.
C1_PowerOfTwoPrefix ==
    (pc = "region_done" /\ ~ip_out.raised) =>
        \A i \in 1..Len(text) :
            LET f == Fields(text[i])
            IN  (Accepted(text[i]) /\ f[3] = S_ipv4) =>
                    \A k \in 0..32 :
                        f[5] = PowTable[k] =>
                            RecordOf(i) = IPPackage(f[2], f[4], str(32 - k), S_ipv4)

\* A line of value 2^32 was parsed behind another line, and gave prefix 0.
C1_Witness ==
    /\ pc = "region_done"
    /\ ~ip_out.raised
    /\ Len(text) = 2
    /\ IsPowLine(text[2], 32)
    /\ RecordOf(2).prefix_length = <<"0">>

InRange(s, hi) ==
    /\ ~IntRaises(s)
    /\ ~int(s).neg
    /\ ~IntLess(MkInt(FALSE, hi), int(s))

\* C2: every record's prefix length is in [0,32] for ipv4 and in [0,128]
\* for ipv6.
C2_PrefixInRange ==
    pc = "region_done" =>
        \A j \in 1..Len(ip_out.ip_data) :
            LET r == ip_out.ip_data[j]
            IN  IF r.version = S_ipv4 THEN InRange(r.prefix_length, <<3, 2>>)
                ELSE InRange(r.prefix_length, <<1, 2, 8>>)

\* C3: processing a source never raises on the content of a line, and every
\* valid line of the source yields its record.
C3_NeverRaises ==
    pc = "region_done" =>
        /\ ~ip_out.raised
        /\ Len(ip_out.ip_data) >=
               Cardinality({i \in 1..Len(text) :
                                Accepted(text[i]) /\ ~Log2Raises(int(Fields(text[i])[5]))})

\* C4: the retained records are those of the lines whose status field is
\* exactly `allocated` or `assigned`.
C4_StatusFieldExact ==
    /\ (pc = "region_done" /\ ~ip_out.raised) =>
           ip_out.ip_data = process_region_data(SelectSeq(text, StatusOK)).ip_data
    /\ pc = "asn_done" => asn_out = process_asn_data(SelectSeq(text, StatusOK))

\* C5: a line beginning with `#` produces no record in either pipeline.
C5_CommentYieldsNothing ==
    /\ (pc = "region_done" /\ ~ip_out.raised) =>
           ip_out.ip_data = process_region_data(SelectSeq(text, NotComment)).ip_data
    /\ pc = "asn_done" => asn_out = process_asn_data(SelectSeq(text, NotComment))

(***************************************************************************)
(* Properties of the two scripts (Spec)                                    *)
(***************************************************************************)

CountryDirs == {"JSON/IPV4", "JSON/IPV6", "ASN/JSON/BY_COUNTRY"}

NoCountry(c) == c = <<>> \/ c = <<"*">>

\* C6: a record whose country code is empty or `*` is in no per-country
\* export of either script, and is in the global export.
C6_NoWildcardInCountryExports ==
    /\ \A p \in DOMAIN files :
           p.dir \in CountryDirs =>
               /\ ~NoCountry(p.name)
               /\ \A i \in 1..Len(files[p]) : ~NoCountry(files[p][i].country)
    /\ (program = "build.py" /\ pc = "done") =>
           \A i \in 1..Len(all_ip_data) :
               \E j \in 1..Len(files[Path("JSON", F_global)]) :
                   files[Path("JSON", F_global)][j] = all_ip_data[i]

AllSources == IF program = "build.py" THEN Regions ELSE Registries

\* C7: once every source has failed and no record was collected, no step
\* of the run changes an output file.
C7_NoArtifactWhenAllFail ==
    [][(pending = {} /\ failed = AllSources /\ all_ip_data = <<>> /\ all_asn_data = <<>>)
           => files' = files]_vars

\* C8: a source whose download failed in this run contributes no record to
\* the run, and the run still exports what it collected.
C8_FailedSourceContributesNothing ==
    program = "build.py" =>
        /\ \A i \in 1..Len(entries) : RegionOrder[i] \in failed => entries[i].n = 0
        /\ pc = "done" => files[Path("JSON", F_global)] = sorted_data

\* The entries of the responses of this run, in the order of ASN_SOURCES.
RECURSIVE SubmissionOrderData(_)
SubmissionOrderData(k) ==
    IF k = 0 THEN <<>>
    ELSE SubmissionOrderData(k - 1)
             \o (IF fetched[AsnOrder[k]].ok
                 THEN process_asn_data(fetched[AsnOrder[k]].text) ELSE <<>>)

\* C9: the exported sequences are those the same responses give when the
\* futures complete in the order they were submitted in, so they do not
\* depend on the order of completion.
C9_OutputIndependentOfCompletionOrder ==
    (program = "build-asn.py" /\ pc = "done") =>
        LET data == SubmissionOrderData(Len(AsnOrder))
        IN  /\ files[Path("ASN/JSON", F_global_asn)] = sorted_by_asn(data)
            /\ files[Path("ASN/JSON", F_summary)] = summary(data)

\* The numeric value of a record's address, zero for an address that does
\* not parse.
AddrValue(pkg) ==
    IF pkg.version = S_ipv4
    THEN IF IPv4Raises(pkg.ip) THEN <<0, 0, 0, 0>> ELSE IPv4Int(pkg.ip)
    ELSE IF IPv6Raises(pkg.ip) THEN <<0, 0, 0, 0, 0, 0, 0, 0>> ELSE IPv6Int(pkg.ip)

\* x sorts strictly before y: country, then ipv4 before ipv6, then address.
IPBefore(x, y) ==
    \/ StrLess(x.country, y.country)
    \/ /\ x.country = y.country
       /\ \/ x.version = S_ipv4 /\ y.version = S_ipv6
          \/ x.version = y.version /\ LimbLess(AddrValue(x), AddrValue(y))

IPNonDecreasing(view) == \A i \in 1..(Len(view) - 1) : ~IPBefore(view[i + 1], view[i])

AsnNonDecreasing(view) ==
    \A i \in 1..(Len(view) - 1) : ~IntLess(int(view[i + 1].asn), int(view[i].asn))

IPViews ==
    {p \in DOMAIN files : p.dir \in {"JSON/IPV4", "JSON/IPV6"}
                            \/ (p.dir = "JSON" /\ p.name # F_countries)}

AsnViews ==
    {p \in DOMAIN files : p.dir \in {"ASN/JSON/BY_COUNTRY", "ASN/JSON/BY_REGISTRY"}
                            \/ (p.dir = "ASN/JSON" /\ p.name # F_summary)}

\* The records of view that agree with the record e on the fields fs.
Restrict(view, fs, e) ==
    LET idx == {i \in 1..Len(view) : \A f \in fs : view[i][f] = e[f]}
        ith == [m \in 1..Cardinality(idx) |->
                   CHOOSE i \in idx : Cardinality({j \in idx : j < i}) = m - 1]
    IN  [m \in 1..Cardinality(idx) |-> view[ith[m]]]

\* C10: every exported view is in non-decreasing order of its sort key, and
\* the per-family, per-country and per-registry views of a run hold their
\* records in the order the global view has them in.
C10_ViewsInCanonicalOrder ==
    /\ \A p \in IPViews : IPNonDecreasing(files[p])
    /\ \A p \in AsnViews : AsnNonDecreasing(files[p])
    /\ (program = "build.py" /\ pc = "done") =>
           LET global == files[Path("JSON", F_global)]
           IN  /\ files[Path("JSON", F_global_ipv4)] = Restrict(global, {"version"}, [version |-> S_ipv4])
               /\ files[Path("JSON", F_global_ipv6)] = Restrict(global, {"version"}, [version |-> S_ipv6])
               /\ \A i \in 1..Len(global) :
                      LET pkg == global[i]
                      IN  files[Path(VersionDir(pkg.version), pkg.country)]
                              = Restrict(global, {"country", "version"}, pkg)
    /\ (program = "build-asn.py" /\ pc = "done") =>
           LET global == files[Path("ASN/JSON", F_global_asn)]
           IN  \A i \in 1..Len(global) :
                   LET e == global[i]
                   IN  /\ ~NoCountry(e.country) =>
                              files[Path("ASN/JSON/BY_COUNTRY", e.country)]
                                  = Restrict(global, {"country"}, e)
                       /\ files[Path("ASN/JSON/BY_REGISTRY", e.registry)]
                              = Restrict(global, {"registry"}, e)

\* build.py exported records it had to reorder, two of one country and family.
C10_Witness ==
    /\ program = "build.py"
    /\ pc = "done"
    /\ sorted_data # all_ip_data
    /\ Path("JSON/IPV4", C_JP) \in DOMAIN files
    /\ Len(files[Path("JSON/IPV4", C_JP)]) >= 2
    /\ Len(files[Path("JSON", F_global_ipv6)]) >= 2

\* The number of times the record e occurs in view.
Occ(view, e) == Cardinality({i \in 1..Len(view) : view[i] = e})

ViewsIn(dirs) == {p \in DOMAIN files : p.dir \in dirs}

\* The view at home holds e as often as global does, and no other view
\* under dirs holds it.
InOneView(global, e, dirs, home) ==
    /\ home \in DOMAIN files
    /\ Occ(files[home], e) = Occ(global, e)
    /\ \A p \in ViewsIn(dirs) \ {home} : Occ(files[p], e) = 0

\* The view at home holds records of global only.
OnlyFrom(global, home) ==
    \A j \in 1..Len(files[home]) : Occ(global, files[home][j]) > 0

\* The records of global that no per-country view is to hold.
WildcardRecords(global) == {i \in 1..Len(global) : NoCountry(global[i].country)}

\* C11: the views a run exports partition its global view.  In build-asn.py
\* every record of the global view is in exactly one per-registry view, and
\* those views hold nothing else; in both scripts every record whose
\* country is neither empty nor '*' is in exactly one per-country view (per
\* country and family in build.py), and those views hold records of the
\* global view only, so that with the empty/wildcard-country records they
\* make up the global view.
C11_ViewsPartitionGlobal ==
    /\ (program = "build-asn.py" /\ pc = "done") =>
           LET global == files[Path("ASN/JSON", F_global_asn)]
           IN  \A i \in 1..Len(global) :
                   LET e == global[i]
                       byReg == Path("ASN/JSON/BY_REGISTRY", e.registry)
                       byCty == Path("ASN/JSON/BY_COUNTRY", e.country)
                   IN  /\ InOneView(global, e, {"ASN/JSON/BY_REGISTRY"}, byReg)
                       /\ OnlyFrom(global, byReg)
                       /\ ~NoCountry(e.country) =>
                              /\ InOneView(global, e, {"ASN/JSON/BY_COUNTRY"}, byCty)
                              /\ OnlyFrom(global, byCty)
    /\ (program = "build.py" /\ pc = "done") =>
           LET global == files[Path("JSON", F_global)]
           IN  \A i \in 1..Len(global) :
                   LET pkg == global[i]
                       byCty == Path(VersionDir(pkg.version), pkg.country)
                   IN  ~NoCountry(pkg.country) =>
                           /\ InOneView(global, pkg, {"JSON/IPV4", "JSON/IPV6"}, byCty)
                           /\ OnlyFrom(global, byCty)

\* build-asn.py exported records of three registries, one of them with two
\* records, and one record with the wildcard country.
C11_Witness ==
    /\ program = "build-asn.py"
    /\ pc = "done"
    /\ LET global == files[Path("ASN/JSON", F_global_asn)]
       IN  /\ Len(global) >= 4
           /\ WildcardRecords(global) # {}
           /\ Cardinality({global[i].registry : i \in 1..Len(global)}) >= 3
           /\ \E i \in 1..Len(global) :
                  Len(files[Path("ASN/JSON/BY_REGISTRY", global[i].registry)]) >= 2

(***************************************************************************)
(* The prefix length of a value that is not a power of two (SpecParse)     *)
(***************************************************************************)

\* 2^k as an integer, k in 0..33
Pow2 == [k \in 0..33 |-> MkInt(FALSE, PowMag(k))]

\* 2^(k-1) < n < 2^k
StrictlyBetweenPow(n, k) == IntLess(Pow2[k - 1], n) /\ IntLess(n, Pow2[k])

\* C12: an accepted IPv4 line whose value is a positive integer that is not
\* a power of two yields a record, with prefix length 32 - ceil(log2(value))
\* for a value below 2^32 (2^(k-1) < value < 2^k gives 32 - k) and 0 for a
\* value between 2^32 and 2^33, the line's country and address unchanged.
C12_NonPowerOfTwoTruncates ==
    (pc = "region_done" /\ ~ip_out.raised) =>
        \A i \in 1..Len(text) :
            LET f == Fields(text[i])
            IN  (Accepted(text[i]) /\ f[3] = S_ipv4) =>
                    /\ Cardinality({j \in 1..i : Accepted(text[j])}) <= Len(ip_out.ip_data)
                    /\ \A k \in 1..32 :
                           StrictlyBetweenPow(int(f[5]), k) =>
                               RecordOf(i) = IPPackage(f[2], f[4], str(32 - k), S_ipv4)
                    /\ StrictlyBetweenPow(int(f[5]), 33) =>
                           RecordOf(i) = IPPackage(f[2], f[4], <<"0">>, S_ipv4)

\* Value 768 gave prefix 22 behind another line, or a value between 2^32
\* and 2^33 gave prefix 0.
C12_Witness ==
    /\ pc = "region_done"
    /\ ~ip_out.raised
    /\ Len(text) = 2
    /\ Accepted(text[1])
    /\ Accepted(text[2])
    /\ Fields(text[1])[5] = V_768
    /\ RecordOf(1).prefix_length = <<"2", "2">>
    /\ StrictlyBetweenPow(int(Fields(text[2])[5]), 33)
    /\ RecordOf(2).prefix_length = <<"0">>

====
